---- MODULE Spec2Model ----
(***************************************************************************)
(* Model of wscat (src/wscat/wscat.py): one UI session of the reflex app,  *)
(* the process-wide connection map _WEBSOCKETS, the background handlers    *)
(* State.connect and State.send_message, the plain handlers on_load,       *)
(* update_message_buffer and update_server_url, and the remote servers.    *)
(*                                                                         *)
(* A background handler runs as an asyncio task: it is interleaved with    *)
(* the other tasks only where it suspends (async with self, yield, await). *)
(* Each action below is one run of a task from one suspension point to the *)
(* next.  `async with self` is the session's exclusive lock; a section     *)
(* whose body has no suspension point is one action that needs the lock    *)
(* free and leaves it free.  A plain (non background) handler runs whole   *)
(* under the same lock.                                                    *)
(***************************************************************************)
EXTENDS Naturals, Sequences, FiniteSets

\* ---- bounds of the model
\* inputs in one run: the UI events (connect, send_message, on_load, the two
\* edits) and the frames the servers send of their own accord
MaxInputs == 3

\* the k-th connect invocation is task k, and so for send_message
Conns == 1..MaxInputs
Sends == 1..MaxInputs

\* ---- values
DefaultUrl == "wss://websocket-echo.com"
DeadUrl == "wss://unreachable.invalid"
Urls == {DefaultUrl, DeadUrl}
\* what the user types, what a server sends of its own accord
Drafts == {"", "hello"}
PushTexts == {"hi"}

\* the empty string of _websocket_id; str(ws.id) is a fresh non-empty id,
\* modelled as the number of the connect invocation that opened ws
NoId == 0

\* whether the handshake of connect(url) succeeds
Reachable(url) == url = DefaultUrl

\* ---- tasks
NoTask == <<"none", 0>>
ConnectTask(c) == <<"connect", c>>
SendTask(s) == <<"send", s>>
UiTask == <<"ui", 0>>

\* ---- Message(role, text)
Message(role, text) == [role |-> role, text |-> text]

\* ---- frames a server puts on a connection
TextFrame(text, echoOf) == [kind |-> "text", text |-> text, echoOf |-> echoOf]
BinaryFrame == [kind |-> "binary", text |-> "", echoOf |-> 0]
NoFrame == [kind |-> "none", text |-> "", echoOf |-> 0]

VARIABLES
    \* State fields
    server_url, message_buffer, messages, connected, _websocket_id,
    \* the module global _WEBSOCKETS (its keys; the value of key c is connection c)
    _WEBSOCKETS,
    \* holder of the session lock (async with self)
    lock,
    \* connect tasks: position, the url read, the frame in hand
    cpc, curl, cur,
    \* connections: status and the frames received from the server, not yet read
    conn, inbox,
    \* send_message tasks: position, local `message`, local `websocket_connection`
    spc, smsg, starget,
    \* scroll_to events emitted to the UI
    scrolls,
    \* history: who appended each entry of messages, the text frames each
    \* relay has read, the inputs taken so far, the task
    \* that wrote a State field last, the frames each relay read and passed
    \* over for not being text
    origin, rcvd, inputs, lastWriter, skipped

vars == <<server_url, message_buffer, messages, connected, _websocket_id,
          _WEBSOCKETS, lock, cpc, curl, cur, conn, inbox, spc, smsg, starget,
          scrolls, origin, rcvd, inputs, lastWriter, skipped>>

sessionVars == <<messages, connected, _websocket_id, origin>>
uiVars == <<server_url, message_buffer>>
connectVars == <<cpc, curl, cur, rcvd, skipped>>
sendVars == <<spc, smsg, starget>>
netVars == <<conn, inbox>>

Init ==
    /\ server_url = DefaultUrl
    /\ message_buffer = ""
    /\ messages = <<>>
    /\ connected = FALSE
    /\ _websocket_id = NoId
    /\ _WEBSOCKETS = {}
    /\ lock = NoTask
    /\ cpc = [c \in Conns |-> "idle"]
    /\ curl = [c \in Conns |-> ""]
    /\ cur = [c \in Conns |-> NoFrame]
    /\ conn = [c \in Conns |-> "none"]
    /\ inbox = [c \in Conns |-> <<>>]
    /\ spc = [s \in Sends |-> "idle"]
    /\ smsg = [s \in Sends |-> ""]
    /\ starget = [s \in Sends |-> NoId]
    /\ scrolls = 0
    /\ origin = <<>>
    /\ rcvd = [c \in Conns |-> <<>>]
    /\ inputs = 0
    /\ lastWriter = NoTask
    /\ skipped = [c \in Conns |-> 0]

\* an input is taken while the run's budget of inputs lasts
TakeInput ==
    /\ inputs < MaxInputs
    /\ inputs' = inputs + 1

\* the connect invocation that reset the session last (connects start in order)
LastReset ==
    IF \A c \in Conns : cpc[c] = "idle"
      THEN NoId
      ELSE CHOOSE c \in Conns :
             /\ cpc[c] # "idle"
             /\ \A d \in Conns : d > c => cpc[d] = "idle"

\* on_load with the bug of trusting the stored id without the registry lookup
on_loadIdOnly ==
    /\ TakeInput
    /\ lock = NoTask
    /\ connected' = (_websocket_id # NoId)
    /\ lastWriter' = UiTask
    /\ UNCHANGED <<messages, _websocket_id, origin, uiVars, _WEBSOCKETS, lock,
                   connectVars, sendVars, netVars, scrolls>>

\* ---------------------------------------------------------------- on_load
on_load ==
    /\ TakeInput
    /\ lock = NoTask
    /\ connected' = ((_websocket_id # NoId) /\ (_websocket_id \in _WEBSOCKETS))
    /\ lastWriter' = UiTask
    /\ UNCHANGED <<messages, _websocket_id, origin, uiVars, _WEBSOCKETS, lock,
                   connectVars, sendVars, netVars, scrolls>>

\* ---------------------------------------------------------------- connect
\* ConnectReset with the bug of leaving messages as they are
ConnectResetKeepsLog(c) ==
    /\ TakeInput
    /\ cpc[c] = "idle"
    /\ (IF c = 1 THEN TRUE ELSE cpc[c - 1] # "idle")
    /\ lock = NoTask
    /\ connected' = FALSE
    /\ _websocket_id' = NoId
    /\ curl' = [curl EXCEPT ![c] = server_url]
    /\ cpc' = [cpc EXCEPT ![c] = "handshake"]
    /\ lastWriter' = ConnectTask(c)
    /\ UNCHANGED <<messages, origin, uiVars, _WEBSOCKETS, lock, cur, rcvd, skipped, sendVars,
                   netVars, scrolls>>

\* ConnectReset with the bug of showing the session connected from the start
ConnectResetOptimistic(c) ==
    /\ TakeInput
    /\ cpc[c] = "idle"
    /\ (IF c = 1 THEN TRUE ELSE cpc[c - 1] # "idle")
    /\ lock = NoTask
    /\ messages' = <<>>
    /\ origin' = <<>>
    /\ connected' = TRUE
    /\ _websocket_id' = NoId
    /\ curl' = [curl EXCEPT ![c] = server_url]
    /\ cpc' = [cpc EXCEPT ![c] = "handshake"]
    /\ lastWriter' = ConnectTask(c)
    /\ UNCHANGED <<uiVars, _WEBSOCKETS, lock, cur, rcvd, skipped, sendVars, netVars, scrolls>>

\* lines 38-41, and the read of self.server_url of line 43
ConnectReset(c) ==
    /\ TakeInput
    /\ cpc[c] = "idle"
    /\ (IF c = 1 THEN TRUE ELSE cpc[c - 1] # "idle")
    /\ lock = NoTask
    /\ messages' = <<>>
    /\ origin' = <<>>
    /\ connected' = FALSE
    /\ _websocket_id' = NoId
    /\ curl' = [curl EXCEPT ![c] = server_url]
    /\ cpc' = [cpc EXCEPT ![c] = "handshake"]
    /\ lastWriter' = ConnectTask(c)
    /\ UNCHANGED <<uiVars, _WEBSOCKETS, lock, cur, rcvd, skipped, sendVars, netVars, scrolls>>

\* ConnectOpen with the bug of not putting ws in _WEBSOCKETS
ConnectOpenNoInsert(c) ==
    /\ cpc[c] = "handshake"
    /\ curl' = [curl EXCEPT ![c] = ""]
    /\ IF Reachable(curl[c])
         THEN /\ conn' = [conn EXCEPT ![c] = "open"]
              /\ cpc' = [cpc EXCEPT ![c] = "mark"]
         ELSE /\ cpc' = [cpc EXCEPT ![c] = "raised"]
              /\ UNCHANGED conn
    /\ UNCHANGED <<sessionVars, uiVars, _WEBSOCKETS, lock, cur, rcvd, skipped, sendVars, inbox,
                   scrolls, inputs, lastWriter>>

\* lines 43-45: the handshake ends; it raises, or ws is put in _WEBSOCKETS
ConnectOpen(c) ==
    /\ cpc[c] = "handshake"
    /\ curl' = [curl EXCEPT ![c] = ""]
    /\ IF Reachable(curl[c])
         THEN /\ conn' = [conn EXCEPT ![c] = "open"]
              /\ _WEBSOCKETS' = _WEBSOCKETS \cup {c}
              /\ cpc' = [cpc EXCEPT ![c] = "mark"]
         ELSE /\ cpc' = [cpc EXCEPT ![c] = "raised"]
              /\ UNCHANGED <<conn, _WEBSOCKETS>>
    /\ UNCHANGED <<sessionVars, uiVars, lock, cur, rcvd, skipped, sendVars, inbox,
                   scrolls, inputs, lastWriter>>

\* ConnectMark with the bug of clearing the log once more when the connection
\* is marked open
ConnectMarkClears(c) ==
    /\ cpc[c] = "mark"
    /\ lock = NoTask
    /\ messages' = <<>>
    /\ origin' = <<>>
    /\ connected' = TRUE
    /\ _websocket_id' = c
    /\ cpc' = [cpc EXCEPT ![c] = "recv"]
    /\ lastWriter' = ConnectTask(c)
    /\ UNCHANGED <<uiVars, _WEBSOCKETS, lock, curl, cur, rcvd, skipped,
                   sendVars, netVars, scrolls, inputs>>

\* lines 46-48
ConnectMark(c) ==
    /\ cpc[c] = "mark"
    /\ lock = NoTask
    /\ connected' = TRUE
    /\ _websocket_id' = c
    /\ cpc' = [cpc EXCEPT ![c] = "recv"]
    /\ lastWriter' = ConnectTask(c)
    /\ UNCHANGED <<messages, origin, uiVars, _WEBSOCKETS, lock, curl, cur, rcvd, skipped,
                   sendVars, netVars, scrolls, inputs>>

\* RelayRecv with the bug of taking every frame for a message (no isinstance
\* test): a frame that is not text is appended like a text frame
RelayRecvAnyFrame(c) ==
    /\ cpc[c] = "recv"
    /\ IF inbox[c] # <<>>
         THEN /\ inbox' = [inbox EXCEPT ![c] = Tail(inbox[c])]
              /\ cur' = [cur EXCEPT ![c] = Head(inbox[c])]
              /\ rcvd' = [rcvd EXCEPT ![c] = Append(rcvd[c], Head(inbox[c]).text)]
              /\ cpc' = [cpc EXCEPT ![c] = "append"]
              /\ skipped' = [skipped EXCEPT ![c] =
                                IF Head(inbox[c]).kind = "text" THEN @ ELSE @ + 1]
              /\ UNCHANGED _WEBSOCKETS
         ELSE /\ conn[c] \in {"closedOK", "closedErr"}
              /\ IF conn[c] = "closedOK"
                   THEN /\ _WEBSOCKETS' = _WEBSOCKETS \ {c}
                        /\ cpc' = [cpc EXCEPT ![c] = "done"]
                   ELSE /\ cpc' = [cpc EXCEPT ![c] = "raised"]
                        /\ UNCHANGED _WEBSOCKETS
              /\ UNCHANGED <<inbox, cur, rcvd, skipped>>
    /\ UNCHANGED <<sessionVars, uiVars, lock, curl, sendVars, conn, scrolls,
                   inputs, lastWriter>>

\* lines 49-50 and 57: `async for message in ws` hands over the next frame;
\* with no frame left it ends on a clean close (then line 57 runs) and
\* raises ConnectionClosedError on an abrupt one
RelayRecv(c) ==
    /\ cpc[c] = "recv"
    /\ IF inbox[c] # <<>>
         THEN /\ inbox' = [inbox EXCEPT ![c] = Tail(inbox[c])]
              /\ IF Head(inbox[c]).kind = "text"
                   THEN /\ cur' = [cur EXCEPT ![c] = Head(inbox[c])]
                        /\ rcvd' = [rcvd EXCEPT ![c] = Append(rcvd[c], Head(inbox[c]).text)]
                        /\ cpc' = [cpc EXCEPT ![c] = "append"]
                        /\ UNCHANGED skipped
                   ELSE /\ skipped' = [skipped EXCEPT ![c] = @ + 1]
                        /\ UNCHANGED <<cur, rcvd, cpc>>
              /\ UNCHANGED _WEBSOCKETS
         ELSE /\ conn[c] \in {"closedOK", "closedErr"}
              /\ IF conn[c] = "closedOK"
                   THEN /\ _WEBSOCKETS' = _WEBSOCKETS \ {c}
                        /\ cpc' = [cpc EXCEPT ![c] = "done"]
                   ELSE /\ cpc' = [cpc EXCEPT ![c] = "raised"]
                        /\ UNCHANGED _WEBSOCKETS
              /\ UNCHANGED <<inbox, cur, rcvd, skipped>>
    /\ UNCHANGED <<sessionVars, uiVars, lock, curl, sendVars, conn, scrolls,
                   inputs, lastWriter>>

\* RelayAppend with the bug of appending without `async with self`: the
\* message is appended whoever holds the lock
RelayAppendUnlocked(c) ==
    /\ cpc[c] = "append"
    /\ lock' = ConnectTask(c)
    /\ messages' = Append(messages, Message("server", cur[c].text))
    /\ origin' = Append(origin, [task |-> c, n |-> Len(rcvd[c]), echoOf |-> cur[c].echoOf])
    /\ cpc' = [cpc EXCEPT ![c] = "yield1"]
    /\ lastWriter' = ConnectTask(c)
    /\ UNCHANGED <<connected, _websocket_id, uiVars, _WEBSOCKETS, curl, cur, rcvd,
                   skipped, sendVars, netVars, scrolls, inputs>>

\* RelayAppend with the bug of putting the message at the head of the log
RelayAppendAtHead(c) ==
    /\ cpc[c] = "append"
    /\ lock = NoTask
    /\ lock' = ConnectTask(c)
    /\ messages' = <<Message("server", cur[c].text)>> \o messages
    /\ origin' = <<[task |-> c, n |-> Len(rcvd[c]), echoOf |-> cur[c].echoOf]>> \o origin
    /\ cpc' = [cpc EXCEPT ![c] = "yield1"]
    /\ lastWriter' = ConnectTask(c)
    /\ UNCHANGED <<connected, _websocket_id, uiVars, _WEBSOCKETS, curl, cur, rcvd, skipped,
                   sendVars, netVars, scrolls, inputs>>

\* lines 51-53: the lock is taken, the message appended, the first yield reached
RelayAppend(c) ==
    /\ cpc[c] = "append"
    /\ lock = NoTask
    /\ lock' = ConnectTask(c)
    /\ messages' = Append(messages, Message("server", cur[c].text))
    /\ origin' = Append(origin, [task |-> c, n |-> Len(rcvd[c]), echoOf |-> cur[c].echoOf])
    /\ cpc' = [cpc EXCEPT ![c] = "yield1"]
    /\ lastWriter' = ConnectTask(c)
    /\ UNCHANGED <<connected, _websocket_id, uiVars, _WEBSOCKETS, curl, cur, rcvd, skipped,
                   sendVars, netVars, scrolls, inputs>>

\* lines 53-54: resumed from the first yield, rx.scroll_to is yielded
RelayScroll(c) ==
    /\ cpc[c] = "yield1"
    /\ scrolls' = scrolls + 1
    /\ cpc' = [cpc EXCEPT ![c] = "yield2"]
    /\ UNCHANGED <<sessionVars, uiVars, _WEBSOCKETS, lock, curl, cur, rcvd, skipped, sendVars,
                   netVars, inputs, lastWriter>>

\* RelayRelease with the bug of a receive loop that stands inside the
\* `async with self` block: the relay goes back to wait for a frame with the
\* lock in hand
RelayReleaseKeepsLock(c) ==
    /\ cpc[c] = "yield2"
    /\ cur' = [cur EXCEPT ![c] = NoFrame]
    /\ cpc' = [cpc EXCEPT ![c] = "recv"]
    /\ UNCHANGED <<sessionVars, uiVars, _WEBSOCKETS, lock, curl, rcvd, skipped,
                   sendVars, netVars, scrolls, inputs, lastWriter>>

\* lines 54-56 and 49: resumed from the second yield, the lock is released
RelayRelease(c) ==
    /\ cpc[c] = "yield2"
    /\ lock' = NoTask
    /\ cur' = [cur EXCEPT ![c] = NoFrame]
    /\ cpc' = [cpc EXCEPT ![c] = "recv"]
    /\ UNCHANGED <<sessionVars, uiVars, _WEBSOCKETS, curl, rcvd, skipped, sendVars, netVars,
                   scrolls, inputs, lastWriter>>

\* ----------------------------------------------------------- send_message
\* SendAppend with the bug of reading the draft without clearing it
SendAppendKeepsDraft(s) ==
    /\ TakeInput
    /\ spc[s] = "idle"
    /\ (IF s = 1 THEN TRUE ELSE spc[s - 1] # "idle")
    /\ lock = NoTask
    /\ lock' = SendTask(s)
    /\ smsg' = [smsg EXCEPT ![s] = message_buffer]
    /\ messages' = Append(messages, Message("user", message_buffer))
    /\ origin' = Append(origin, [task |-> s, n |-> 0, echoOf |-> 0])
    /\ spc' = [spc EXCEPT ![s] = "yield1"]
    /\ lastWriter' = SendTask(s)
    /\ UNCHANGED <<connected, _websocket_id, uiVars, _WEBSOCKETS, connectVars,
                   starget, netVars, scrolls>>

\* SendAppend with the bug of not appending the user message before the send
SendAppendLate(s) ==
    /\ TakeInput
    /\ spc[s] = "idle"
    /\ (IF s = 1 THEN TRUE ELSE spc[s - 1] # "idle")
    /\ lock = NoTask
    /\ lock' = SendTask(s)
    /\ smsg' = [smsg EXCEPT ![s] = message_buffer]
    /\ message_buffer' = ""
    /\ spc' = [spc EXCEPT ![s] = "yield1"]
    /\ lastWriter' = SendTask(s)
    /\ UNCHANGED <<sessionVars, server_url, _WEBSOCKETS, connectVars, starget, netVars,
                   scrolls>>

\* lines 62-66: the lock is taken, the draft read and cleared, the user
\* message appended, the first yield reached
SendAppend(s) ==
    /\ TakeInput
    /\ spc[s] = "idle"
    /\ (IF s = 1 THEN TRUE ELSE spc[s - 1] # "idle")
    /\ lock = NoTask
    /\ lock' = SendTask(s)
    /\ smsg' = [smsg EXCEPT ![s] = message_buffer]
    /\ message_buffer' = ""
    /\ messages' = Append(messages, Message("user", message_buffer))
    /\ origin' = Append(origin, [task |-> s, n |-> 0, echoOf |-> 0])
    /\ spc' = [spc EXCEPT ![s] = "yield1"]
    /\ lastWriter' = SendTask(s)
    /\ UNCHANGED <<connected, _websocket_id, server_url, _WEBSOCKETS, connectVars,
                   starget, netVars, scrolls>>

\* SendScroll with the bug of resuming past the rx.scroll_to event
SendScrollSkipped(s) ==
    /\ spc[s] = "yield1"
    /\ spc' = [spc EXCEPT ![s] = "yield2"]
    /\ UNCHANGED <<sessionVars, uiVars, _WEBSOCKETS, lock, connectVars, smsg, starget,
                   netVars, scrolls, inputs, lastWriter>>

\* lines 66-67: resumed from the first yield, rx.scroll_to is yielded
SendScroll(s) ==
    /\ spc[s] = "yield1"
    /\ scrolls' = scrolls + 1
    /\ spc' = [spc EXCEPT ![s] = "yield2"]
    /\ UNCHANGED <<sessionVars, uiVars, _WEBSOCKETS, lock, connectVars, smsg, starget,
                   netVars, inputs, lastWriter>>

\* SendLookup with the bug of indexing _WEBSOCKETS[self._websocket_id], which
\* raises KeyError for an id that is not a key
SendLookupNoCheck(s) ==
    /\ spc[s] = "yield2"
    /\ IF _websocket_id \in _WEBSOCKETS
         THEN /\ starget' = [starget EXCEPT ![s] = _websocket_id]
              /\ spc' = [spc EXCEPT ![s] = "sending"]
              /\ UNCHANGED <<lock, smsg>>
         ELSE /\ spc' = [spc EXCEPT ![s] = "raised"]
              /\ smsg' = [smsg EXCEPT ![s] = ""]
              /\ lock' = NoTask
              /\ UNCHANGED starget
    /\ UNCHANGED <<sessionVars, uiVars, _WEBSOCKETS, connectVars, netVars, scrolls,
                   inputs, lastWriter>>

\* lines 70-73: resumed from the second yield; _WEBSOCKETS.get, the return
\* on None (the lock is released), else the call of send, which suspends
SendLookup(s) ==
    /\ spc[s] = "yield2"
    /\ IF _websocket_id \in _WEBSOCKETS
         THEN /\ starget' = [starget EXCEPT ![s] = _websocket_id]
              /\ spc' = [spc EXCEPT ![s] = "sending"]
              /\ UNCHANGED <<lock, smsg>>
         ELSE /\ spc' = [spc EXCEPT ![s] = "returned"]
              /\ smsg' = [smsg EXCEPT ![s] = ""]
              /\ lock' = NoTask
              /\ UNCHANGED starget
    /\ UNCHANGED <<sessionVars, uiVars, _WEBSOCKETS, connectVars, netVars, scrolls,
                   inputs, lastWriter>>

\* line 73: send ends.  On an open connection the frame is written (the
\* server may echo it); on a closed one send raises ConnectionClosed.  Either
\* way the `async with self` block is left and the lock released.
SendFinish(s) ==
    /\ spc[s] = "sending"
    /\ lock' = NoTask
    /\ smsg' = [smsg EXCEPT ![s] = ""]
    /\ starget' = [starget EXCEPT ![s] = NoId]
    /\ IF conn[starget[s]] = "open"
         THEN /\ spc' = [spc EXCEPT ![s] = "sent"]
              /\ \E echo \in BOOLEAN :
                    inbox' = IF echo
                               THEN [inbox EXCEPT ![starget[s]] =
                                        Append(@, TextFrame(smsg[s], s))]
                               ELSE inbox
         ELSE /\ spc' = [spc EXCEPT ![s] = "raised"]
              /\ UNCHANGED inbox
    /\ UNCHANGED <<sessionVars, uiVars, _WEBSOCKETS, connectVars, conn,
                   scrolls, inputs, lastWriter>>

\* ------------------------------------------------- the plain UI handlers
update_message_buffer(value) ==
    /\ TakeInput
    /\ lock = NoTask
    /\ message_buffer' = value
    /\ UNCHANGED <<sessionVars, server_url, _WEBSOCKETS, lock, connectVars, sendVars,
                   netVars, scrolls, lastWriter>>

update_server_url(value) ==
    /\ TakeInput
    /\ lock = NoTask
    /\ server_url' = value
    /\ UNCHANGED <<sessionVars, message_buffer, _WEBSOCKETS, lock, connectVars,
                   sendVars, netVars, scrolls, lastWriter>>

\* ------------------------------------------------------------ the servers
\* the server of connection c sends a frame of its own accord
ServerPush(c, f) ==
    /\ TakeInput
    /\ conn[c] = "open"
    /\ inbox' = [inbox EXCEPT ![c] = Append(@, f)]
    /\ UNCHANGED <<sessionVars, uiVars, _WEBSOCKETS, lock, connectVars, sendVars,
                   conn, scrolls, lastWriter>>

\* connection c ends: a closing handshake ("closedOK") or a lost link ("closedErr")
ConnectionClose(c, how) ==
    /\ conn[c] = "open"
    /\ conn' = [conn EXCEPT ![c] = how]
    /\ UNCHANGED <<sessionVars, uiVars, _WEBSOCKETS, lock, connectVars, sendVars,
                   inbox, scrolls, inputs, lastWriter>>

PushFrames == {TextFrame(t, 0) : t \in PushTexts} \cup {BinaryFrame}

Next ==
    \/ on_load
    \/ \E v \in Drafts : update_message_buffer(v)
    \/ \E u \in Urls : update_server_url(u)
    \/ \E c \in Conns : ConnectReset(c)
    \/ \E c \in Conns : ConnectOpen(c)
    \/ \E c \in Conns : ConnectMark(c)
    \/ \E c \in Conns : RelayRecv(c)
    \/ \E c \in Conns : RelayAppend(c)
    \/ \E c \in Conns : RelayScroll(c)
    \/ \E c \in Conns : RelayRelease(c)
    \/ \E s \in Sends : SendAppend(s)
    \/ \E s \in Sends : SendScroll(s)
    \/ \E s \in Sends : SendLookup(s)
    \/ \E s \in Sends : SendFinish(s)
    \/ \E c \in Conns : \E f \in PushFrames : ServerPush(c, f)
    \/ \E c \in Conns : \E how \in {"closedOK", "closedErr"} : ConnectionClose(c, how)

Spec == Init /\ [][Next]_vars

TypeOK ==
    /\ server_url \in Urls
    /\ message_buffer \in Drafts
    /\ connected \in BOOLEAN
    /\ _websocket_id \in Conns \cup {NoId}
    /\ _WEBSOCKETS \subseteq Conns
    /\ Len(origin) = Len(messages)
    /\ inputs \in 0..MaxInputs

\* ------------------------------------------------------------ the claims
\* the relay of connection c has left its receive loop: by a clean close
\* ("done") or by the error of an abrupt one ("raised" on an opened connection)
RelayEnded(c) ==
    \/ cpc[c] = "done"
    \/ (cpc[c] = "raised" /\ conn[c] # "none")

\* the connect of task c raised in its handshake
HandshakeFailed(c) == cpc[c] = "raised" /\ conn[c] = "none"

\* C1: in every reachable state, connected = TRUE implies that _websocket_id
\* is non-empty and is a key of _WEBSOCKETS.
C1_ConnectedImpliesRegistered ==
    connected => (_websocket_id # NoId /\ _websocket_id \in _WEBSOCKETS)

\* C2: once the relay of a connection has seen the connection closed, the
\* session no longer names that connection, and if the relay was the last to
\* write the session then connected = FALSE and _websocket_id is empty.
C2_ClosedMarksDisconnected ==
    \A c \in Conns :
        RelayEnded(c) =>
            /\ _websocket_id # c
            /\ (lastWriter = ConnectTask(c) => (~connected /\ _websocket_id = NoId))

\* C3: after the relay task of a connection has terminated, by a clean close
\* or by a connection error, the connection's id is not a key of _WEBSOCKETS.
C3_EndedRelayDeregistered ==
    \A c \in Conns : RelayEnded(c) => c \notin _WEBSOCKETS

\* the places of messages that hold a server message appended by relay c
ServerEntries(c) ==
    {i \in 1..Len(messages) : messages[i].role = "server" /\ origin[i].task = c}

\* the places of messages that hold the user message of send_message task s
UserEntries(s) ==
    {i \in 1..Len(messages) : messages[i].role = "user" /\ origin[i].task = s}

\* the text frames relay c has read and appended (the one in hand, read and
\* waiting for the lock, is not appended yet)
Appended(c) == Len(rcvd[c]) - (IF cpc[c] = "append" THEN 1 ELSE 0)

\* the texts of the server messages of the log, in log order
RECURSIVE ServerTexts(_)
ServerTexts(log) ==
    IF log = <<>> THEN <<>>
    ELSE IF Head(log).role = "server"
           THEN <<Head(log).text>> \o ServerTexts(Tail(log))
           ELSE ServerTexts(Tail(log))

\* C4: the server messages of a connection stand in the log in the order in
\* which its text frames were read, one message per frame, with the frame's
\* text: none lost, doubled or reordered.  They are the last frames read and
\* appended by the relay (all of them when no later connect has reset the
\* log), and when no other connection was opened the server messages of the
\* log are exactly the frames read and appended.
C4_ServerMessagesInReceiptOrder ==
    \A c \in Conns :
        LET I == ServerEntries(c)
            k == Cardinality(I)
        IN  /\ k <= Appended(c)
            /\ \A i \in I :
                  /\ origin[i].n = Appended(c) - k + Cardinality({j \in I : j <= i})
                  /\ messages[i].text = rcvd[c][origin[i].n]
            /\ (LastReset = c => k = Appended(c))
            /\ ((LastReset = c /\ \A d \in Conns \ {c} : conn[d] = "none")
                   => ServerTexts(messages) = SubSeq(rcvd[c], 1, Appended(c)))

\* C4 witness: two text frames of one connection, both in the log, with a
\* user message of a send_message in between or around them
C4_Witness ==
    \E c \in Conns :
        /\ Cardinality(ServerEntries(c)) = 2
        /\ Len(rcvd[c]) = 2
        /\ rcvd[c][1] # rcvd[c][2]
        /\ \E s \in Sends : UserEntries(s) # {}

\* C5: when the network connection attempt of a connect starts, the reset of
\* that connect is complete (messages empty, connected false, _websocket_id
\* empty) and the session lock is free.
C5_ResetBeforeHandshake ==
    [][\A c \in Conns :
          (cpc[c] # "handshake" /\ cpc'[c] = "handshake")
             => /\ messages' = <<>>
                /\ ~connected'
                /\ _websocket_id' = NoId
                /\ lock' = NoTask]_vars

\* C5 witness: the second connect is in its handshake, just reset, on a
\* session whose first connection had put a server message in the log
C5_Witness ==
    /\ cpc[2] = "handshake"
    /\ lastWriter = ConnectTask(2)
    /\ cpc[1] = "recv"
    /\ Len(rcvd[1]) >= 1
    /\ messages = <<>>

\* C6: the step that sets _websocket_id to the id of a connection is taken
\* once, by the connect task that opened it, with the id already a key of
\* _WEBSOCKETS, and it sets connected; the session never names a connection
\* that has not been put in _WEBSOCKETS yet.
C6_RegisteredBeforeVisible ==
    [][\A c \in Conns :
          /\ (_websocket_id' = c /\ _websocket_id # c)
                => (c \in _WEBSOCKETS /\ connected' /\ cpc[c] = "mark" /\ cpc'[c] = "recv")
          /\ (cpc'[c] = "mark" /\ cpc[c] # "mark")
                => (cpc[c] = "handshake" /\ c \in _WEBSOCKETS')
          /\ (cpc'[c] = "handshake" => cpc[c] \in {"idle", "handshake"})
          /\ (cpc'[c] = "idle" => cpc[c] = "idle")
          /\ (_websocket_id' = c => cpc'[c] \notin {"idle", "handshake", "mark"})]_vars

\* C6 witness: a send_message has looked up the id of a connection just
\* marked and found its handle
C6_Witness ==
    \E c \in Conns : \E s \in Sends :
        /\ connected /\ _websocket_id = c /\ c \in _WEBSOCKETS
        /\ spc[s] = "sending" /\ starget[s] = c

\* the session is not connected, or names no key of _WEBSOCKETS
NotConnected == ~connected \/ _websocket_id \notin _WEBSOCKETS

\* C7: a send_message run while connected is false, or while _websocket_id is
\* no key of _WEBSOCKETS, appends one user message with the drafted text,
\* changes messages in no other way, calls send on no connection, raises
\* nothing and returns with the lock released.
C7_SendWhileDisconnected ==
    [][\A s \in Sends :
          /\ (spc[s] = "idle" /\ spc'[s] # "idle")
                => messages' = Append(messages, Message("user", message_buffer))
          /\ (spc[s] \in {"yield1", "yield2"} /\ NotConnected)
                => /\ spc'[s] \in {"yield1", "yield2", "returned"}
                   /\ messages' = messages
                   /\ (spc'[s] = "returned" => lock' = NoTask)
                   /\ NotConnected']_vars

\* C7 witness: a send_message has returned on a session that is not
\* connected, its user message the last of the log
C7_Witness ==
    \E s \in Sends :
        /\ spc[s] = "returned"
        /\ ~connected
        /\ messages # <<>>
        /\ messages[Len(messages)] = Message("user", "hello")

\* C8: no send_message raises: a send that fails on a closed connection is
\* dropped.
C8_SendFailureDropped ==
    \A s \in Sends : spc[s] # "raised"

\* C9: a connect whose handshake failed has put no entry in _WEBSOCKETS, and
\* when it is the last to have written the session, connected is false,
\* _websocket_id is empty and messages is empty.
C9_FailedConnectLeavesCleanSlate ==
    \A c \in Conns :
        HandshakeFailed(c) =>
            /\ c \notin _WEBSOCKETS
            /\ (lastWriter = ConnectTask(c)
                  => (~connected /\ _websocket_id = NoId /\ messages = <<>>))

\* C9 witness: a reconnect to an unreachable url has failed on a session
\* that had a message before, and nothing wrote the session since
C9_Witness ==
    \E c \in Conns : \E s \in Sends :
        /\ HandshakeFailed(c)
        /\ lastWriter = ConnectTask(c)
        /\ spc[s] # "idle"

\* C10: while send is under way the user message is in the log already; the
\* server message of an echo stands after the user message it echoes, with
\* the same text, and that user message is in the log as long as no connect
\* has reset the log since the echoing connection was opened.
C10_UserBeforeEcho ==
    /\ \A s \in Sends :
          spc[s] = "sending"
             => \E i \in UserEntries(s) : messages[i].text = smsg[s]
    /\ \A j \in 1..Len(messages) :
          (messages[j].role = "server" /\ origin[j].echoOf # 0)
             => /\ \A i \in UserEntries(origin[j].echoOf) :
                      i < j /\ messages[i].text = messages[j].text
                /\ (LastReset = origin[j].task => UserEntries(origin[j].echoOf) # {})

\* C10 witness: submit "hello", then its echo
C10_Witness ==
    /\ messages = <<Message("user", "hello"), Message("server", "hello")>>
    /\ origin[2].echoOf = origin[1].task

\* C11: the step in which a relay reads a frame that is not text changes no
\* State field and emits no scroll_to, and leaves the relay at the receive
\* loop; no message of the log comes from such a frame.
C11_BinaryFrameIgnored ==
    [][\A c \in Conns :
          (skipped'[c] # skipped[c])
             => /\ UNCHANGED <<messages, connected, _websocket_id, message_buffer,
                              server_url, scrolls, _WEBSOCKETS, lock>>
                /\ cpc[c] = "recv" /\ cpc'[c] = "recv"
                /\ Head(inbox[c]).kind = "binary"
                /\ inbox'[c] = Tail(inbox[c])
                /\ Appended(c)' = Appended(c)]_vars

\* C11 witness: a relay has passed over a binary frame and then appended the
\* text frame that came after it
C11_Witness ==
    \E c \in Conns :
        /\ skipped[c] = 1
        /\ cpc[c] = "recv"
        /\ messages = <<Message("server", "hi")>>
        /\ scrolls = 1

\* the tasks that are inside an `async with self` block, suspended there
InSection ==
    {ConnectTask(c) : c \in {d \in Conns : cpc[d] \in {"yield1", "yield2"}}}
      \cup {SendTask(s) : s \in {r \in Sends : spc[r] \in {"yield1", "yield2", "sending"}}}

\* C12: at most one task is inside the session's exclusive section, and it is
\* the holder of the lock; messages, connected, _websocket_id and
\* message_buffer change only in a step taken with the lock free and nobody
\* inside the section (the step of the task that enters it).
C12_MutationsSerialized ==
    [][/\ Cardinality(InSection') <= 1
       /\ InSection' = (IF lock' = NoTask THEN {} ELSE {lock'})
       /\ (<<messages, connected, _websocket_id, message_buffer>>'
              # <<messages, connected, _websocket_id, message_buffer>>)
             => (lock = NoTask /\ InSection = {})]_vars

\* C12 witness: a relay has a frame in hand and waits for the lock that a
\* send_message holds
C12_Witness ==
    \E c \in Conns : \E s \in Sends :
        /\ cpc[c] = "append"
        /\ lock = SendTask(s)
        /\ spc[s] \in {"yield1", "yield2", "sending"}

\* C13: a relay that waits for the next frame does not hold the session
\* lock; with no task inside the exclusive section the lock is free, and a
\* connect, a send_message, a buffer edit and on_load can each be taken,
\* whatever the relays wait for.
C13_WaitingRelayHoldsNoLock ==
    /\ \A c \in Conns : cpc[c] = "recv" => lock # ConnectTask(c)
    /\ InSection = {} => lock = NoTask
    /\ (InSection = {} /\ inputs < MaxInputs)
          => /\ ENABLED (\E c \in Conns : ConnectReset(c))
             /\ ENABLED (\E s \in Sends : SendAppend(s))
             /\ ENABLED update_message_buffer("hello")
             /\ ENABLED on_load

\* C13 witness: a send_message ran to its end while the relay of the open
\* connection waited for a frame that never came
C13_Witness ==
    \E c \in Conns : \E s \in Sends :
        /\ cpc[c] = "recv" /\ conn[c] = "open"
        /\ inbox[c] = <<>> /\ rcvd[c] = <<>> /\ skipped[c] = 0
        /\ spc[s] = "sent"
        /\ lastWriter = SendTask(s)
        /\ lock = NoTask

\* C14: the step in which a send_message starts reads and clears the draft
\* at once: it is taken with the lock free, leaves message_buffer empty,
\* appends a user message whose text is the draft read and keeps that text as
\* the one to send; the text to send never changes while the task runs, and the draft
\* becomes non-empty again only by a buffer edit, a step that starts no task
\* and appends nothing. Two send_message with no edit in between therefore
\* append and send the drafted text once, the second one the empty text.
C14_DraftTakenAtomically ==
    [][/\ \A s \in Sends :
            /\ (spc[s] = "idle" /\ spc'[s] # "idle")
                  => /\ lock = NoTask /\ lock' = SendTask(s)
                     /\ message_buffer' = ""
                     /\ messages' = Append(messages, Message("user", message_buffer))
                     /\ smsg'[s] = message_buffer
            /\ (spc[s] # "idle" /\ spc'[s] \in {"yield1", "yield2", "sending"})
                  => smsg'[s] = smsg[s]
       /\ (message_buffer' # message_buffer /\ message_buffer' # "")
             => /\ lock = NoTask
                /\ UNCHANGED <<spc, smsg, cpc, messages, lock>>]_vars

\* C14 witness: the draft "hello" was typed once and send_message invoked
\* twice: the log holds the draft once, then the empty text
C14_Witness ==
    /\ messages = <<Message("user", "hello"), Message("user", "")>>
    /\ message_buffer = ""
    /\ spc[1] \in {"returned", "sent", "raised"}
    /\ spc[2] = "yield1" /\ smsg[2] = ""

\* C15: every step leaves messages unchanged, or extends it by exactly one
\* entry at the end with the entries before it kept as they were in their
\* order, or empties it; it is emptied only by the reset step with which a
\* connect starts.
C15_LogAppendOnlyButReset ==
    [][\/ messages' = messages
       \/ /\ Len(messages') = Len(messages) + 1
          /\ SubSeq(messages', 1, Len(messages)) = messages
       \/ /\ messages' = <<>>
          /\ \E c \in Conns : cpc[c] = "idle" /\ cpc'[c] = "handshake"]_vars

\* C15 witness: a user message and a server message stand in the log in the
\* order of their appends, on a connection marked open whose relay waits for
\* the next frame
C15_Witness ==
    /\ Len(messages) = 2
    /\ messages[1].role = "user" /\ messages[2].role = "server"
    /\ connected
    /\ \E c \in Conns : cpc[c] = "recv" /\ _websocket_id = c

\* the appends done by the relays of connections 1..n
RECURSIVE SumAppended(_)
SumAppended(n) == IF n = 0 THEN 0 ELSE Appended(n) + SumAppended(n - 1)

\* every append done so far, by a relay or by a send_message
TotalAppends ==
    SumAppended(MaxInputs) + Cardinality({s \in Sends : spc[s] # "idle"})

\* the tasks that have appended and not yet emitted the scroll of that append
AwaitingScroll ==
    {ConnectTask(c) : c \in {d \in Conns : cpc[d] = "yield1"}}
      \cup {SendTask(s) : s \in {r \in Sends : spc[r] = "yield1"}}

\* C16: one scroll-to-latest notification per appended message: the count of
\* notifications is the count of appends less the one append whose task has
\* not resumed from its first yield yet; a step emits at most one
\* notification, it is the step of the one task that stands right after its
\* append, it appends nothing, and a task appends only with no notification
\* of its own outstanding.
C16_OneScrollPerAppend ==
    [][/\ scrolls' = TotalAppends' - Cardinality(AwaitingScroll')
       /\ Cardinality(AwaitingScroll') <= 1
       /\ scrolls' # scrolls
             => /\ scrolls' = scrolls + 1
                /\ Cardinality(AwaitingScroll) = 1 /\ AwaitingScroll' = {}
                /\ messages' = messages
       /\ messages' # messages /\ messages' # <<>>
             => /\ AwaitingScroll = {}
                /\ Cardinality(AwaitingScroll') = 1
                /\ scrolls' = scrolls]_vars

\* C16 witness: a user message and a server message were appended and two
\* notifications emitted, none outstanding
C16_Witness ==
    /\ Len(messages) = 2
    /\ \E i, j \in 1..2 : messages[i].role = "user" /\ messages[j].role = "server"
    /\ scrolls = 2
    /\ AwaitingScroll = {}

\* C17: every server message of the log comes from the connection of the
\* most recent connect: once a connect has reset the session, no relay of an
\* earlier connect appends to the log.
C17_ServerMessagesOfLatestConnect ==
    \A i \in 1..Len(messages) :
        messages[i].role = "server" => origin[i].task = LastReset

\* C18: on_load sets connected to true exactly when the stored connection id
\* is non-empty and a key of the registry, to false otherwise, and changes
\* neither messages, message_buffer, server_url, the stored id nor the
\* registry.
C18_OnLoadRecomputesConnected ==
    [][on_load
         => /\ connected' = (_websocket_id # NoId /\ _websocket_id \in _WEBSOCKETS)
            /\ UNCHANGED <<messages, message_buffer, server_url, _websocket_id,
                           _WEBSOCKETS>>]_vars

\* C18 witness: on_load ran after the connection of the stored id had ended
\* and left the registry, and turned connected to false
C18_Witness ==
    /\ lastWriter = UiTask
    /\ ~connected
    /\ _websocket_id # NoId
    /\ _websocket_id \notin _WEBSOCKETS

\* C19: no task holds the session lock while it is suspended on a network
\* operation: not a connect during its handshake or while it waits for a
\* frame, not a send_message during its network send.
C19_NoLockAcrossNetworkWait ==
    /\ \A c \in Conns : cpc[c] \in {"handshake", "recv"} => lock # ConnectTask(c)
    /\ \A s \in Sends : spc[s] = "sending" => lock # SendTask(s)
====
